---- MODULE Spec2Model ----
(***************************************************************************)
(* The RDS failover simulation tool (src/rds-failover/app/simFail.go) as a *)
(* state machine: main loads the configuration and dispatches on the mode  *)
(* flag to monitorDatabase (a ticker-driven polling loop) or to            *)
(* triggerFailover (RebootDBInstance with ForceFailover, then the recovery *)
(* loop monitorFailoverStatus).  The control plane is the environment: the *)
(* result and the duration of every call are chosen nondeterministically.  *)
(* Time is a discrete clock that only the program's blocking operations    *)
(* advance: control-plane calls, the receive from the ticker channel and   *)
(* time.Sleep.                                                             *)
(***************************************************************************)
EXTENDS Integers, Sequences, FiniteSets, TLC

VARIABLES
    pc,                \* position of the single goroutine
    mode,              \* value of the -mode flag
    simConfig,         \* *SimulationConfig returned by loadConfig (NilConfig = nil)
    err,               \* main's err variable
    banner,            \* which mode function printed its startup banner
    now,               \* the clock
    nextTick,          \* when the ticker fires next (0 = no ticker yet)
    tickBuffered,      \* ticker.C holds an undelivered tick
    lastWait,          \* length of the wait completed since the last query (0 = none)
    lastDur,           \* duration of the most recent DescribeDBInstances call
    lastReportTime,    \* clock value at the most recent per-poll report line
    describeCalls,     \* DescribeDBInstances calls issued
    rebootCalls,       \* RebootDBInstance calls issued
    rebootResult,      \* what RebootDBInstance answered: "none", "ok" or "failed"
    lastCallId,        \* DBInstanceIdentifier carried by the most recent call
    lastResult,        \* result of the most recent DescribeDBInstances call
    lastCategory,      \* printer selected by the most recent status line
    healthyReports,    \* status lines printed with the success printer
    nonHealthyReports, \* status lines printed with the warning/failure printer
    errorReports,      \* "Error checking RDS" lines
    successReports,    \* "Failover completed successfully" lines
    messages           \* one-off stderr lines printed by main

vars == <<pc, mode, simConfig, err, banner, now, nextTick, tickBuffered, lastWait,
          lastDur, lastReportTime, describeCalls, rebootCalls, rebootResult, lastCallId,
          lastResult, lastCategory, healthyReports, nonHealthyReports, errorReports,
          successReports, messages>>

----------------------------------------------------------------------------
(* Bounds of the model *)

\* the clock value up to which a wait (tick receive, sleep) may complete
MaxTime == 20
\* the longest control-plane call
MaxDur == 6

(* Program constants *)

\* time.NewTicker(5 * time.Second)
TickInterval == 5
\* time.Sleep(10 * time.Second)
SleepInterval == 10

Modes == {"monitor", "failover", "status", "Monitor", ""}
DBIds == {"db-1", "db-2"}
NilConfig == "nil"
Statuses == {"available", "rebooting", "modifying", "", "failed", "Available"}
Zones == {"us-east-1a", "us-east-1b"}
Durations == 0..MaxDur

Healthy == "Healthy"
Transitional == "Transitional"
Unknown == "Unknown"

\* What DescribeDBInstances can answer: an API error, an empty instance
\* list, or an instance with a raw status and an availability zone.
DescribeResults ==
    {[kind |-> "error", status |-> "", az |-> ""],
     [kind |-> "empty", status |-> "", az |-> ""]}
    \cup [kind : {"ok"}, status : Statuses, az : Zones]

AvailableResults == [kind : {"ok"}, status : {"available"}, az : Zones]

NoResult == [kind |-> "none", status |-> "", az |-> ""]

----------------------------------------------------------------------------
(* Pure functions of the program *)

printStatus_NoTransitional(status) ==
    IF status = "available" THEN Healthy ELSE Unknown

\* printStatus: the printer chosen by the switch on the raw status
printStatus(status) ==
    CASE status = "available" -> Healthy
      [] status \in {"rebooting", "modifying"} -> Transitional
      [] OTHER -> Unknown

printFailoverStatus_CaseInsensitive(status) ==
    CASE status \in {"available", "Available"} -> Healthy
      [] status \in {"rebooting", "modifying"} -> Transitional
      [] OTHER -> Unknown

\* printFailoverStatus: the same switch in the recovery loop
printFailoverStatus(status) ==
    CASE status = "available" -> Healthy
      [] status \in {"rebooting", "modifying"} -> Transitional
      [] OTHER -> Unknown

getRDSStatus_NoEmptyCheck(res) ==
    IF res.kind = "error"
    THEN [status |-> "", az |-> "", err |-> "transport"]
    ELSE [status |-> res.status, az |-> res.az, err |-> "nil"]

\* getRDSStatus: (status, az, err) from one DescribeDBInstances answer
getRDSStatus(res) ==
    IF res.kind = "error"
    THEN [status |-> "", az |-> "", err |-> "transport"]
    ELSE IF res.kind = "empty"
    THEN [status |-> "", az |-> "", err |-> "not_found"]
    ELSE [status |-> res.status, az |-> res.az, err |-> "nil"]

MonitorContinue_StopOnError(r) ==
    IF r.err # "nil" THEN "main_ret" ELSE "mon_wait"

MonitorContinue_ThenFailover(r) ==
    IF r.err # "nil" THEN "triggerFailover" ELSE "mon_wait"

MonitorContinue_StopOnHealthy(r) ==
    IF r.err = "nil" /\ r.status = "available" THEN "main_ret" ELSE "mon_wait"

\* Where monitorDatabase goes after handling one poll result: the body of
\* `for range ticker.C` has no break and no return.
MonitorContinue(r) == "mon_wait"

DescribeErr_IgnoreEmpty(res) ==
    IF res.kind = "error" THEN "describe_error" ELSE "nil"

DescribeErr_IgnoreError(res) ==
    IF res.kind = "empty" THEN "not_found" ELSE "nil"

\* monitorFailoverStatus: the error it returns for one answer ("nil" = none)
DescribeErr(res) ==
    IF res.kind = "error" THEN "describe_error"
    ELSE IF res.kind = "empty" THEN "not_found"
    ELSE "nil"

RecoveryDone_Never(status) == FALSE

RecoveryDone_OnRebooting(status) == status \in {"available", "rebooting"}

\* monitorFailoverStatus: the stop test of the recovery loop
RecoveryDone(status) == status = "available"

SwitchTarget_DefaultMonitor(m) ==
    IF m = "failover" THEN "triggerFailover" ELSE "monitorDatabase"

SwitchTarget_Swapped(m) ==
    CASE m = "monitor" -> "triggerFailover"
      [] m = "failover" -> "monitorDatabase"
      [] OTHER -> "main_ret"

\* main: where the switch on the mode flag goes ("main_ret" = the default
\* branch, which calls neither function)
SwitchTarget(m) ==
    CASE m = "monitor" -> "monitorDatabase"
      [] m = "failover" -> "triggerFailover"
      [] OTHER -> "main_ret"

DBInstanceIdentifier_HardCoded(cfg) == "db-1"

\* The DBInstanceIdentifier put into a request: &simConfig.DBIdentifier in
\* triggerFailover, &dbIdentifier (the same string, passed down) in
\* getRDSStatus and monitorFailoverStatus.
DBInstanceIdentifier(cfg) == cfg

RebootErr_Ignored(ok) == "nil"

\* triggerFailover: the error it returns after RebootDBInstance
RebootErr(ok) == IF ok THEN "nil" ELSE "trigger_failed"

SleepUntil_Short(t) == t + 1

\* time.Sleep(10 * time.Second) started at t ends at
SleepUntil(t) == t + SleepInterval

\* The ticker while the clock moves from its current value to t: every
\* firing in that span does a non-blocking send on the one-slot channel
\* (later ones are dropped) and the timer is re-armed past t.
TickerFiresBy(t) == nextTick # 0 /\ nextTick <= t
TickAfter(t) ==
    IF TickerFiresBy(t)
    THEN nextTick + TickInterval * (((t - nextTick) \div TickInterval) + 1)
    ELSE nextTick

reports == healthyReports + nonHealthyReports + errorReports

----------------------------------------------------------------------------
Init ==
    /\ pc = "main"
    /\ mode \in Modes
    /\ simConfig = NilConfig
    /\ err = "nil"
    /\ banner = "none"
    /\ now = 0
    /\ nextTick = 0
    /\ tickBuffered = FALSE
    /\ lastWait = 0
    /\ lastDur = 0
    /\ lastReportTime = 0
    /\ describeCalls = 0
    /\ rebootCalls = 0
    /\ rebootResult = "none"
    /\ lastCallId = "none"
    /\ lastResult = NoResult
    /\ lastCategory = "none"
    /\ healthyReports = 0
    /\ nonHealthyReports = 0
    /\ errorReports = 0
    /\ successReports = 0
    /\ messages = {}

tickerVars == <<nextTick, tickBuffered>>
rebootVars == <<rebootCalls, rebootResult>>
pollVars == <<lastDur, lastReportTime, describeCalls, lastResult, lastCategory,
              healthyReports, nonHealthyReports, errorReports>>

\* main, lines 40-43: loadConfig; a failure is reported and main goes on
\* with a nil configuration.
LoadConfig ==
    /\ pc = "main"
    /\ \E c \in DBIds \cup {NilConfig} :
         /\ simConfig' = c
         /\ err' = IF c = NilConfig THEN "config" ELSE "nil"
         /\ messages' = IF c = NilConfig
                        THEN messages \cup {"Error loading configuration"}
                        ELSE messages
    /\ pc' = "switch"
    /\ UNCHANGED <<mode, banner, now, tickerVars, lastWait, pollVars, rebootVars,
                   lastCallId, successReports>>

\* main, lines 45-52: the switch on the mode flag
MainSwitch ==
    /\ pc = "switch"
    /\ pc' = SwitchTarget(mode)
    /\ messages' = IF SwitchTarget(mode) = "main_ret"
                   THEN messages \cup {"Invalid mode specified"}
                   ELSE messages
    /\ UNCHANGED <<mode, simConfig, err, banner, now, tickerVars, lastWait,
                   pollVars, rebootVars, lastCallId, successReports>>

\* monitorDatabase, lines 73-85: banner, simConfig.DBIdentifier (a nil
\* dereference panics), LoadDefaultConfig, ticker creation.
MonitorEnter ==
    /\ pc = "monitorDatabase"
    /\ banner' = "monitor"
    /\ IF simConfig = NilConfig
       THEN /\ pc' = "panic"
            /\ UNCHANGED <<err, tickerVars>>
       ELSE \E awsOk \in BOOLEAN :
              IF awsOk
              THEN /\ pc' = "mon_wait"
                   /\ nextTick' = now + TickInterval
                   /\ tickBuffered' = FALSE
                   /\ UNCHANGED err
              ELSE /\ pc' = "main_ret"
                   /\ err' = "aws_config"
                   /\ UNCHANGED tickerVars
    /\ UNCHANGED <<mode, simConfig, now, lastWait, pollVars, rebootVars,
                   lastCallId, successReports, messages>>

\* monitorDatabase, line 87: receive from ticker.C; a buffered tick is
\* delivered at once, otherwise the loop blocks until the ticker fires.
MonitorWait ==
    /\ pc = "mon_wait"
    /\ IF tickBuffered
       THEN /\ now <= MaxTime
            /\ UNCHANGED <<now, nextTick>>
       ELSE /\ nextTick <= MaxTime
            /\ now' = nextTick
            /\ nextTick' = nextTick + TickInterval
    /\ lastWait' = now' - now
    /\ tickBuffered' = FALSE
    /\ pc' = "mon_poll"
    /\ UNCHANGED <<mode, simConfig, err, banner, pollVars, rebootVars,
                   lastCallId, successReports, messages>>

\* monitorDatabase, lines 88-93: one getRDSStatus call answering from R and
\* the line reported for it.
MonitorPollFrom(R) ==
    /\ pc = "mon_poll"
    /\ \E d \in Durations, res \in R :
         LET r == getRDSStatus(res)
             cat == printStatus(r.status)
         IN  /\ now' = now + d
             /\ lastWait' = 0
             /\ tickBuffered' = (tickBuffered \/ TickerFiresBy(now + d))
             /\ nextTick' = TickAfter(now + d)
             /\ lastDur' = d
             /\ lastReportTime' = now + d
             /\ describeCalls' = describeCalls + 1
             /\ lastCallId' = DBInstanceIdentifier(simConfig)
             /\ lastResult' = res
             /\ IF r.err # "nil"
                THEN /\ errorReports' = errorReports + 1
                     /\ UNCHANGED <<lastCategory, healthyReports, nonHealthyReports>>
                ELSE /\ lastCategory' = cat
                     /\ healthyReports' = healthyReports + (IF cat = Healthy THEN 1 ELSE 0)
                     /\ nonHealthyReports' = nonHealthyReports + (IF cat = Healthy THEN 0 ELSE 1)
                     /\ UNCHANGED errorReports
             /\ pc' = MonitorContinue(r)
             /\ err' = IF MonitorContinue(r) = "main_ret" THEN r.err ELSE err
    /\ UNCHANGED <<mode, simConfig, banner, rebootVars, successReports, messages>>

MonitorPoll == MonitorPollFrom(DescribeResults)

\* triggerFailover, lines 133-142: banner, simConfig.DBIdentifier (a nil
\* dereference panics), LoadDefaultConfig.
TriggerEnter ==
    /\ pc = "triggerFailover"
    /\ banner' = "failover"
    /\ IF simConfig = NilConfig
       THEN /\ pc' = "panic"
            /\ UNCHANGED err
       ELSE \E awsOk \in BOOLEAN :
              IF awsOk
              THEN /\ pc' = "reboot"
                   /\ UNCHANGED err
              ELSE /\ pc' = "main_ret"
                   /\ err' = "aws_config"
    /\ UNCHANGED <<mode, simConfig, now, tickerVars, lastWait, pollVars,
                   rebootVars, lastCallId, successReports, messages>>

\* triggerFailover, lines 144-155: RebootDBInstance with ForceFailover,
\* going to onOk when the call succeeds and to onErr when it fails
ForceFailoverStep(onOk, onErr) ==
    /\ pc = "reboot"
    /\ \E d \in Durations, ok \in BOOLEAN :
         /\ now' = now + d
         /\ rebootCalls' = rebootCalls + 1
         /\ rebootResult' = IF ok THEN "ok" ELSE "failed"
         /\ lastCallId' = DBInstanceIdentifier(simConfig)
         /\ IF RebootErr(ok) # "nil"
            THEN /\ err' = RebootErr(ok)
                 /\ pc' = onErr
            ELSE /\ pc' = onOk
                 /\ UNCHANGED err
    /\ UNCHANGED <<mode, simConfig, banner, tickerVars, lastWait, pollVars,
                   successReports, messages>>

ForceFailover_Retry == ForceFailoverStep("fo_poll", "reboot")

ForceFailover_SleepFirst == ForceFailoverStep("fo_sleep", "main_ret")

\* on success triggerFailover calls monitorFailoverStatus, whose loop starts
\* with the query; on failure it returns
ForceFailover == ForceFailoverStep("fo_poll", "main_ret")

\* monitorFailoverStatus, lines 161-181: one iteration of the recovery loop
\* up to the sleep.
FailoverPoll ==
    /\ pc = "fo_poll"
    /\ \E d \in Durations, res \in DescribeResults :
         LET e == DescribeErr(res)
             cat == printFailoverStatus(res.status)
         IN  /\ now' = now + d
             /\ lastWait' = 0
             /\ lastDur' = d
             /\ describeCalls' = describeCalls + 1
             /\ lastCallId' = DBInstanceIdentifier(simConfig)
             /\ lastResult' = res
             /\ IF e # "nil"
                THEN /\ err' = e
                     /\ pc' = "main_ret"
                     /\ UNCHANGED <<lastReportTime, lastCategory, healthyReports,
                                    nonHealthyReports, successReports>>
                ELSE /\ lastReportTime' = now + d
                     /\ lastCategory' = cat
                     /\ healthyReports' = healthyReports + (IF cat = Healthy THEN 1 ELSE 0)
                     /\ nonHealthyReports' = nonHealthyReports + (IF cat = Healthy THEN 0 ELSE 1)
                     /\ IF RecoveryDone(res.status)
                        THEN /\ successReports' = successReports + 1
                             /\ err' = "nil"
                             /\ pc' = "main_ret"
                        ELSE /\ pc' = "fo_sleep"
                             /\ UNCHANGED <<successReports, err>>
    /\ UNCHANGED <<mode, simConfig, banner, tickerVars, errorReports,
                   rebootVars, messages>>

FailoverSleep_MaxAttempts ==
    /\ pc = "fo_sleep"
    /\ IF describeCalls >= 2
       THEN /\ pc' = "main_ret"
            /\ err' = "timeout"
            /\ UNCHANGED <<now, lastWait>>
       ELSE /\ SleepUntil(now) <= MaxTime
            /\ now' = SleepUntil(now)
            /\ lastWait' = SleepUntil(now) - now
            /\ pc' = "fo_poll"
            /\ UNCHANGED err
    /\ UNCHANGED <<mode, simConfig, banner, tickerVars, pollVars,
                   rebootVars, lastCallId, successReports, messages>>

\* monitorFailoverStatus, line 183: time.Sleep
FailoverSleep ==
    /\ pc = "fo_sleep"
    /\ SleepUntil(now) <= MaxTime
    /\ now' = SleepUntil(now)
    /\ lastWait' = SleepUntil(now) - now
    /\ pc' = "fo_poll"
    /\ UNCHANGED <<mode, simConfig, err, banner, tickerVars, pollVars,
                   rebootVars, lastCallId, successReports, messages>>

\* main, lines 54-57: the final error report
MainReturn ==
    /\ pc = "main_ret"
    /\ messages' = IF err # "nil" THEN messages \cup {"Error"} ELSE messages
    /\ pc' = "exit"
    /\ UNCHANGED <<mode, simConfig, err, banner, now, tickerVars, lastWait,
                   pollVars, rebootVars, lastCallId, successReports>>

Next ==
    \/ LoadConfig
    \/ MainSwitch
    \/ MonitorEnter
    \/ MonitorWait
    \/ MonitorPoll
    \/ TriggerEnter
    \/ ForceFailover
    \/ FailoverPoll
    \/ FailoverSleep
    \/ MainReturn

Spec == Init /\ [][Next]_vars

\* The single goroutine always takes its next step and every blocking
\* call returns.
SpecFair == Spec /\ WF_vars(Next)

----------------------------------------------------------------------------
(* Properties *)

Returned == pc \in {"main_ret", "exit"}

\* C1: in failover mode, when the recovery loop's Nth DescribeDBInstances
\* call is the first to answer "available" (every earlier one answered a
\* non-Healthy status; an error or an empty list would have ended the loop),
\* exactly N calls have been made, "Failover completed successfully" has
\* been printed once and triggerFailover has returned nil.
C1_RecoveryPollCount ==
    (mode = "failover" /\ lastResult.kind = "ok" /\ lastResult.status = "available")
    => /\ describeCalls = nonHealthyReports + 1
       /\ healthyReports = 1
       /\ successReports = 1
       /\ Returned
       /\ err = "nil"
       /\ "Error" \notin messages

C1_Witness ==
    /\ mode = "failover"
    /\ pc = "exit"
    /\ describeCalls = 3
    /\ nonHealthyReports = 2
    /\ successReports = 1

\* C2: when RebootDBInstance fails, triggerFailover returns the "failed to
\* trigger failover" error, the recovery loop is not entered and no
\* DescribeDBInstances call is made.
C2_TriggerFailureAborts ==
    rebootResult = "failed"
    => /\ Returned
       /\ err = "trigger_failed"
       /\ describeCalls = 0
       /\ reports = 0
       /\ successReports = 0
       /\ (pc = "exit" => "Error" \in messages)

C2_Witness ==
    /\ rebootResult = "failed"
    /\ pc = "exit"
    /\ rebootCalls = 1

C4_FailoverNotFoundStops ==
    (mode = "failover" /\ lastResult.kind = "empty")
    => /\ Returned
       /\ err = "not_found"
       /\ successReports = 0
       /\ healthyReports = 0
       /\ nonHealthyReports = describeCalls - 1
       /\ (pc = "exit" => "Error" \in messages)

C4_Witness ==
    /\ mode = "failover"
    /\ lastResult.kind = "empty"
    /\ describeCalls = 3
    /\ pc = "exit"

\* The receive from ticker.C can complete within the modelled time span.
TickDeliverable == IF tickBuffered THEN now <= MaxTime ELSE nextTick <= MaxTime

\* C5: in monitor mode a DescribeDBInstances call that fails with an API
\* error is reported as one error line and the loop goes back to waiting on
\* the ticker, however many errors came before; and from there the next
\* tick is delivered and the next query started.
C5_MonitorTransportErrorContinues ==
    /\ [][ (mode = "monitor" /\ describeCalls' # describeCalls
                /\ lastResult'.kind = "error")
           => /\ errorReports' = errorReports + 1
              /\ healthyReports' = healthyReports
              /\ nonHealthyReports' = nonHealthyReports
              /\ pc' = "mon_wait"
              /\ err' = err ]_vars
    /\ (mode = "monitor" /\ pc = "mon_wait" /\ lastResult.kind = "error"
            /\ TickDeliverable)
       ~> (pc = "mon_poll" /\ lastResult.kind = "error")

\* three API errors in a row and a fourth query started
C5_Witness ==
    /\ mode = "monitor"
    /\ lastResult.kind = "error"
    /\ errorReports = 3
    /\ describeCalls = 3
    /\ pc = "mon_poll"

C7_ClassificationTotal ==
    (lastResult.kind = "ok" /\ mode \in {"monitor", "failover"})
    => /\ lastCategory \in {Healthy, Transitional, Unknown}
       /\ (lastCategory = Healthy <=> lastResult.status = "available")
       /\ (lastCategory = Transitional
              <=> lastResult.status \in {"rebooting", "modifying"})
       /\ (lastCategory = Unknown
              <=> lastResult.status \notin {"available", "rebooting", "modifying"})

C7_Witness ==
    /\ mode = "monitor"
    /\ lastResult.kind = "ok"
    /\ lastResult.status = ""
    /\ lastCategory = Unknown
    /\ nonHealthyReports = 2

Interval == IF mode = "monitor" THEN TickInterval ELSE SleepInterval

\* C8 as stated: in both loops two consecutive per-poll reports are at
\* least one configured interval apart, whatever the calls' durations.
C8_ReportSpacing ==
    [][ (reports' = reports + 1 /\ reports >= 1)
        => lastReportTime' - lastReportTime >= Interval ]_vars

\* C8 as amended: in the recovery loop two consecutive reports are at least
\* 10 apart whatever the calls' durations.  In the monitor loop the ticker
\* paces the starts of the polls, not the reports: two consecutive reports
\* are at least 5 apart when the earlier poll started at a firing time of
\* the ticker and the later call lasts at least as long as the earlier one.
C8_ReportSpacingAmended ==
    [][ (reports' = reports + 1 /\ reports >= 1)
        => /\ mode = "failover"
              => lastReportTime' - lastReportTime >= SleepInterval
           /\ (mode = "monitor"
                 /\ (lastReportTime - lastDur) % TickInterval = 0
                 /\ lastDur' >= lastDur)
              => lastReportTime' - lastReportTime >= TickInterval ]_vars

C8_Witness ==
    /\ mode = "failover"
    /\ reports = 3
    /\ lastReportTime >= 2 * SleepInterval

\* The monitor mode against a control plane that always answers
\* "available".
InitMonitor == Init /\ mode = "monitor"

MonitorPollAvailable == MonitorPollFrom(AvailableResults)

NextMonitorAvailable ==
    \/ LoadConfig
    \/ MainSwitch
    \/ MonitorEnter
    \/ MonitorWait
    \/ MonitorPollAvailable
    \/ MainReturn

SpecMonitorAvailable ==
    InitMonitor /\ [][NextMonitorAvailable]_vars /\ WF_vars(NextMonitorAvailable)

\* C9: against a control plane that always answers "available",
\* monitorDatabase does not return once its loop has started, every report
\* is a Healthy one, every tick delivered to the loop leads to a Healthy
\* report, and the loop keeps taking ticks for as long as the clock runs.
C9_MonitorRunsForever ==
    /\ [](Returned => describeCalls = 0)
    /\ [](nonHealthyReports = 0 /\ errorReports = 0
              /\ (pc = "mon_wait" => healthyReports = describeCalls))
    /\ [][pc = "mon_poll" => (pc' = "mon_wait" /\ healthyReports' = healthyReports + 1
                                  /\ lastCategory' = Healthy)]_vars
    /\ (pc = "mon_poll") ~> (pc = "mon_wait" /\ lastCategory = Healthy)
    /\ (pc = "mon_wait") ~> (pc = "mon_wait" /\ ~TickDeliverable
                                 /\ healthyReports >= MaxTime \div (TickInterval + MaxDur))

C9_Witness ==
    /\ pc = "mon_wait"
    /\ healthyReports = 4
    /\ describeCalls = 4
    /\ now >= MaxTime

\* C10 as stated: after a failed configuration load neither mode function
\* is entered and no control-plane call is made, whatever the mode.
C10_ConfigFailureFailsClosed ==
    "Error loading configuration" \in messages
    => /\ pc \notin {"monitorDatabase", "triggerFailover"}
       /\ banner = "none"
       /\ describeCalls = 0
       /\ rebootCalls = 0

\* the configuration was loaded and the switch on the mode flag has run
ConfigLoaded == pc \notin {"main"} /\ simConfig # NilConfig

\* C11: with a loaded configuration and a mode flag other than "monitor"
\* and "failover", main prints "Invalid mode specified", enters neither
\* monitorDatabase nor triggerFailover and makes no control-plane call.
C11_InvalidModeRejected ==
    (ConfigLoaded /\ mode \notin {"monitor", "failover"} /\ pc # "switch")
    => /\ "Invalid mode specified" \in messages
       /\ Returned
       /\ banner = "none"
       /\ nextTick = 0
       /\ describeCalls = 0
       /\ rebootCalls = 0
       /\ err = "nil"

C11_Witness ==
    /\ ConfigLoaded
    /\ mode = "Monitor"
    /\ pc = "exit"
    /\ "Invalid mode specified" \in messages

\* C12: in a run with the mode flag "monitor" RebootDBInstance is never
\* called, whatever the polls answer; DescribeDBInstances is the only
\* control-plane operation issued.
C12_MonitorNeverReboots ==
    mode = "monitor"
    => /\ rebootCalls = 0
       /\ rebootResult = "none"
       /\ banner \in {"none", "monitor"}
       /\ pc \notin {"triggerFailover", "reboot", "fo_poll", "fo_sleep"}

\* a monitor run that has seen an error, an empty list and a status
C12_Witness ==
    /\ mode = "monitor"
    /\ describeCalls = 4
    /\ errorReports = 2
    /\ nonHealthyReports = 1
    /\ healthyReports = 1
    /\ lastResult.kind = "empty"

\* The phase of the failover orchestrator: 0 Idle (no RebootDBInstance
\* answer yet), 1 FailoverRequested (the failover was accepted, no poll
\* yet), 2 Recovering (polled, not yet seen available), 3 Recovered (the
\* success line printed), 4 aborted by an error.
Phase ==
    CASE successReports > 0 -> 3
      [] rebootResult = "failed" \/ pc = "panic" \/ (Returned /\ err # "nil") -> 4
      [] rebootResult = "none" -> 0
      [] describeCalls = 0 -> 1
      [] OTHER -> 2

\* C13: in failover mode the phases only advance in the order Idle,
\* FailoverRequested, Recovering, Recovered (an error aborts the run from
\* any phase before Recovered; the poll that sees "available" goes through
\* Recovering within its step); no DescribeDBInstances call is made before
\* RebootDBInstance has succeeded; the success line is printed only by a
\* poll whose status is classified Healthy; and after the success line no
\* further control-plane call is made.
C13_FailoverPhaseOrder ==
    /\ [](mode = "failover"
            => /\ (describeCalls > 0 => rebootResult = "ok" /\ rebootCalls = 1)
               /\ (successReports > 0
                     => /\ successReports = 1
                        /\ lastResult.kind = "ok"
                        /\ printFailoverStatus(lastResult.status) = Healthy
                        /\ lastCategory = Healthy
                        /\ Returned /\ err = "nil"))
    /\ [][ mode = "failover"
           => /\ Phase' \in {Phase, Phase + 1, 4} \/ (Phase = 1 /\ Phase' = 3)
              /\ Phase = 0 /\ Phase' = 1 => rebootCalls' = rebootCalls + 1
              /\ Phase' = 3 /\ Phase # 3 => describeCalls' = describeCalls + 1
              /\ Phase \in {3, 4}
                   => /\ Phase' = Phase
                      /\ describeCalls' = describeCalls
                      /\ rebootCalls' = rebootCalls ]_vars

C13_Witness ==
    /\ mode = "failover"
    /\ Phase = 3
    /\ pc = "exit"
    /\ describeCalls = 2
    /\ nonHealthyReports = 1

\* C14 as stated: the recovery loop has no iteration bound and no
\* timeout: once it has polled, triggerFailover returns only after a poll
\* that saw "available".
C14_ReturnsOnlyWhenHealthy ==
    (mode = "failover" /\ Returned /\ describeCalls >= 1)
    => (lastResult.kind = "ok" /\ lastResult.status = "available")

\* C14 as amended: the recovery loop has no iteration bound and no
\* timeout: it ends only on a poll that saw "available", failed or found
\* no instance; after a poll that saw any other status it has not returned
\* and sleeps again, whatever the number of polls so far (in the model the
\* sleep is cut off by the end of the time span alone).
C14_UnboundedRecoveryWait ==
    mode = "failover"
    => /\ (Returned /\ describeCalls >= 1)
          => \/ lastResult.kind \in {"error", "empty"}
             \/ (lastResult.kind = "ok" /\ lastResult.status = "available")
       /\ (lastResult.kind = "ok" /\ lastResult.status # "available")
          => (pc \in {"fo_sleep", "fo_poll"} /\ err = "nil" /\ successReports = 0)
       /\ (pc = "fo_sleep" /\ now + SleepInterval <= MaxTime)
          => ENABLED FailoverSleep

\* three polls, none of them Healthy, and the loop is still running
C14_Witness ==
    /\ mode = "failover"
    /\ pc = "fo_sleep"
    /\ describeCalls = 3
    /\ nonHealthyReports = 3

Query == describeCalls' = describeCalls + 1

\* The wait that precedes a query: in the recovery loop the sleep completed
\* since the previous query; in the monitor loop the time since the previous
\* query started (since the ticker was created, for the first query).
PrecedingWait ==
    IF mode = "monitor" /\ describeCalls >= 1
    THEN now - (lastReportTime - lastDur)
    ELSE lastWait

\* C15 as stated: in both loops every query, the first one included, is
\* preceded by a wait of one full interval.
C15_WaitBeforeEveryQuery ==
    [][Query => PrecedingWait >= Interval]_vars

\* C15 as amended: in the monitor loop every query follows the delivery of
\* a tick; the first one comes one full interval after the ticker is
\* created, and a later one at least one interval after the previous query
\* when that query started at a firing time of the ticker.  In the recovery
\* loop the first query is made with no wait, and every later query follows
\* the previous report by a sleep of exactly one interval: an iteration is
\* query, report, stop check, wait.
C15_StepOrder ==
    [][ Query
        => /\ mode = "monitor"
              => /\ pc = "mon_poll"
                 /\ describeCalls = 0 => PrecedingWait = TickInterval
                 /\ (describeCalls >= 1
                       /\ (lastReportTime - lastDur) % TickInterval = 0)
                    => PrecedingWait >= TickInterval
           /\ mode = "failover"
              => /\ pc = "fo_poll"
                 /\ describeCalls = 0 => lastWait = 0
                 /\ describeCalls >= 1
                    => /\ lastWait = SleepInterval
                       /\ now - lastReportTime = SleepInterval ]_vars

\* the first query of the recovery loop is done and the second is due after
\* a full sleep
C15_Witness ==
    /\ mode = "failover"
    /\ pc = "fo_poll"
    /\ describeCalls = 1
    /\ lastWait = SleepInterval

\* C16: in one run at most one of the monitor loop and the failover
\* orchestrator is started, the one the mode flag names, and each step of
\* the single goroutine issues at most one control-plane call, which has
\* returned when the step ends.
C16_SingleActiveLoop ==
    /\ [](/\ ~(nextTick # 0 /\ (rebootCalls > 0 \/ banner = "failover"))
          /\ banner = "monitor"
             => /\ mode = "monitor"
                /\ rebootCalls = 0
                /\ pc \notin {"triggerFailover", "reboot", "fo_poll", "fo_sleep"}
          /\ banner = "failover"
             => /\ mode = "failover"
                /\ nextTick = 0
                /\ pc \notin {"monitorDatabase", "mon_wait", "mon_poll"})
    /\ [][ /\ (describeCalls' - describeCalls) + (rebootCalls' - rebootCalls)
                \in {0, 1}
           /\ describeCalls' # describeCalls => pc \in {"mon_poll", "fo_poll"}
           /\ rebootCalls' # rebootCalls => pc = "reboot" ]_vars

C16_Witness ==
    /\ banner = "failover"
    /\ rebootCalls = 1
    /\ describeCalls = 2
    /\ pc = "fo_sleep"

\* C17: once loaded, the configuration's identifier never changes, and
\* every control-plane call of the run (DescribeDBInstances in either loop,
\* RebootDBInstance) carries it.
C17_TargetImmutable ==
    /\ [](lastCallId # "none" => (lastCallId = simConfig /\ simConfig \in DBIds))
    /\ [][ /\ pc # "main" => simConfig' = simConfig
           /\ (describeCalls' # describeCalls \/ rebootCalls' # rebootCalls)
              => lastCallId' = simConfig ]_vars

C17_Witness ==
    /\ simConfig = "db-2"
    /\ lastCallId = "db-2"
    /\ mode = "failover"
    /\ rebootCalls = 1
    /\ describeCalls = 2

\* C18: RebootDBInstance is called at most once in a run: not again during
\* the recovery loop, whatever the polls answer, and not again after it
\* failed.
C18_ForceFailoverAtMostOnce ==
    /\ rebootCalls <= 1
    /\ rebootCalls = 1 <=> rebootResult # "none"
    /\ rebootResult = "failed" => (Returned /\ describeCalls = 0)
    /\ (mode = "failover" /\ describeCalls > 0) => rebootCalls = 1

C18_Witness ==
    /\ mode = "failover"
    /\ rebootCalls = 1
    /\ describeCalls = 3
    /\ lastResult.kind = "error"
    /\ pc = "exit"

\* C19: for every raw status the two switches select the same category,
\* and the recovery loop stops exactly on the statuses it reports Healthy:
\* after a status reported Healthy it has returned with the success line,
\* after one reported Transitional or Unknown it is still looping.
C19_ClassifiersAgree ==
    lastResult.kind = "ok"
    => /\ lastCategory = printStatus(lastResult.status)
       /\ lastCategory = printFailoverStatus(lastResult.status)
       /\ mode = "failover"
          => /\ lastCategory = Healthy <=> (Returned /\ successReports = 1)
             /\ lastCategory # Healthy
                  <=> (pc \in {"fo_sleep", "fo_poll"} /\ successReports = 0)

C19_Witness ==
    /\ mode = "failover"
    /\ lastResult.kind = "ok"
    /\ lastResult.status = "Available"
    /\ lastCategory = Unknown
    /\ pc = "fo_sleep"

====
